---- MODULE Spec2Model ----
(***************************************************************************)
(* Model of gc/shared/parallelCleaning.cpp: one cleanup pass of            *)
(* ParallelCleaningTask (construction, N concurrent work() calls, join,    *)
(* destruction) with its four sub-tasks.  Every shared-memory access of a  *)
(* worker (plain read, compare-and-swap, iterator pull, external call) is  *)
(* one step, so that all interleavings of the claim races are explored.    *)
(***************************************************************************)
EXTENDS Integers, Sequences, FiniteSets, TLC

\* ---------------------------------------------------------------- bounds
MaxWorkers  == 2  \* largest worker count N explored
MaxUnits    == 4  \* code cache size (units, alive or not) when the code cache task runs alone
MaxBatch    == 2  \* largest MaxClaimNmethods explored when the code cache task runs alone
MaxKlasses  == 3  \* class registry size when the klass task runs alone
PassUnits   == 2  \* code cache size in a whole pass
PassBatch   == 1  \* largest MaxClaimNmethods explored in a whole pass
PassKlasses == 1  \* class registry size in a whole pass
MaxCalls    == 3  \* largest number of work() calls explored when worker ids repeat

NULL == 0         \* the null pointer; units and classes are numbered from 1

VARIABLES
  task,                    \* the class whose work() the pool's workers call
  phase,                   \* "new" | "running" | "destroyed": lifetime of the task object;
                           \* "aborted": the process was terminated by a fatal error
  num_workers,             \* N, the number of work() calls of the pass
  alive,                   \* code cache in registry order: alive[u] = unit u is alive
  klasses,                 \* class registry in order: klasses[k] = k is an instance class
  MaxClaimNmethods,        \* batch size K
  unloading_occurred,      \* ParallelCleaningTask::_unloading_occurred
  EnableJVMCI,             \* runtime capability flag
  dedup_enabled,           \* StringDedup::is_enabled()
  first_nmethod,           \* CodeCacheUnloadingTask::_first_nmethod
  claimed_nmethod,         \* CodeCacheUnloadingTask::_claimed_nmethod (the cursor)
  clean_klass_tree_claimed,\* KlassCleaningTask::_clean_klass_tree_claimed
  cleaning_claimed,        \* JVMCICleaningTask::_cleaning_claimed
  klass_iterator,          \* KlassCleaningTask::_klass_iterator: next class to hand out
  pc,                      \* pc[c]: position of work() call c
  worker_id,               \* worker_id[c]: the id call c was invoked with
  stalled,                 \* the call that the scheduler may stop for ever (0: none)
  count_cas,               \* whether cas_failed and cas_advanced are being recorded
  first,                   \* local `first` of claim_nmethods
  last,                    \* local `last.method()` of claim_nmethods
  claimed_nmethods,        \* local array claimed_nmethods[0..num_claimed_nmethods)
  idx,                     \* loop index i of the unload loop in work()
  klass,                   \* local `klass` of KlassCleaningTask::work
  \* ---- observation (history) variables: calls made on the collaborators
  unloaded,                \* unloaded[u]: number of do_unloading calls on unit u
  batches,                 \* completed claim_nmethods calls, in order: <<cursor replaced, batch returned>>
  cas_failed,              \* cas_failed[c]: failed compare-and-swaps of call c in claim_nmethods
  cas_advanced,            \* cas_advanced[c]: compare-and-swaps of call c that changed the cursor
  claim_true,              \* claim_true[g]: calls of gate g's claim that returned true
  claim_false,             \* claim_false[g]: calls of gate g's claim that returned false
  subklass_tree_calls,     \* calls of Klass::clean_subklass_tree
  jvmci_calls,             \* calls of JVMCI::do_unloading
  klass_returned,          \* klass_returned[k]: times claim_next_klass returned class k
  klass_cleaned,           \* klass_cleaned[k]: number of clean_klass(k) calls
  prologue_calls,          \* calls of StringDedup::gc_prologue
  epilogue_calls,          \* calls of StringDedup::gc_epilogue
  unlink_calls,            \* calls of StringDedup::parallel_unlink started
  unlink_active,           \* parallel_unlink calls started and not yet returned
  verify_calls,            \* runs of the code cache verification pair
  log                      \* log[c]: the sub-task events of call c, in order

inputs  == <<task, num_workers, alive, klasses, MaxClaimNmethods, unloading_occurred,
             EnableJVMCI, dedup_enabled, worker_id, stalled, count_cas>>
shared  == <<first_nmethod, claimed_nmethod, clean_klass_tree_claimed,
             cleaning_claimed, klass_iterator>>
locals  == <<first, last, claimed_nmethods, idx, klass>>
ccHist  == <<unloaded, batches, cas_failed, cas_advanced>>
gateHist == <<claim_true, claim_false, subklass_tree_calls, jvmci_calls>>
klassHist == <<klass_returned, klass_cleaned>>
dedupHist == <<prologue_calls, epilogue_calls, unlink_calls, unlink_active>>
vars == <<phase, inputs, shared, pc, locals, ccHist, gateHist, klassHist,
          dedupHist, verify_calls, log>>

Calls  == DOMAIN pc
Units  == 1..Len(alive)
Klasses == 1..Len(klasses)
Gates  == {"klass_tree", "jvmci"}

Bump(f, x) == [f EXCEPT ![x] = @ + 1]

\* ------------------------------------------------ code cache iteration
\* CompiledMethodIterator(only_alive, u).next(): the next alive unit after u
\* in registry order (from the start when u is NULL), NULL when there is none.
NextAlive(u) ==
  IF \E v \in Units : v > u /\ alive[v]
    THEN CHOOSE v \in Units : v > u /\ alive[v] /\
                              \A w \in Units : (w > u /\ alive[w]) => v <= w
    ELSE NULL

\* CompiledMethodIterator::method() once next() has returned false: the
\* iterator has run off the end of the code cache and holds no unit.
MethodAtEnd == NULL

\* (mutation) the for loop stores one unit more than MaxClaimNmethods
RECURSIVE WalkFromOneMore(_, _, _)
WalkFromOneMore(cur, i, acc) ==
  IF i > MaxClaimNmethods THEN <<acc, cur>>
  ELSE LET n == NextAlive(cur) IN
       IF n = NULL THEN <<acc, MethodAtEnd>>
       ELSE WalkFromOneMore(n, i + 1, Append(acc, n))

\* The for loop of claim_nmethods from iterator position cur with i units
\* already stored in acc: the result is <<claimed_nmethods, last.method()>>.
RECURSIVE WalkFrom(_, _, _)
WalkFrom(cur, i, acc) ==
  IF i >= MaxClaimNmethods THEN <<acc, cur>>
  ELSE LET n == NextAlive(cur) IN
       IF n = NULL THEN <<acc, MethodAtEnd>>
       ELSE WalkFrom(n, i + 1, Append(acc, n))

\* (mutation) the walk starts at the cursor unit itself instead of after it
WalkFromCursor(f) == IF f # NULL THEN WalkFrom(f, 1, <<f>>) ELSE <<(<<>>), f>>

\* (mutation) the test of `first` is inverted: only a NULL cursor is walked from
WalkIfNull(f) == IF f = NULL THEN WalkFrom(f, 0, <<>>) ELSE <<(<<>>), f>>

\* Body of the do-while of claim_nmethods after `first` was read.
Walk(f) == IF f # NULL THEN WalkFrom(f, 0, <<>>) ELSE <<(<<>>), f>>

\* ------------------------------------------------------------- Init
\* The locals of nc work() calls about to start at `entry`.
InitCalls(nc, entry) ==
  /\ pc = [c \in 1..nc |-> entry]
  /\ first = [c \in 1..nc |-> NULL]
  /\ last = [c \in 1..nc |-> NULL]
  /\ claimed_nmethods = [c \in 1..nc |-> <<>>]
  /\ idx = [c \in 1..nc |-> 0]
  /\ klass = [c \in 1..nc |-> NULL]
  /\ cas_failed = [c \in 1..nc |-> 0]
  /\ cas_advanced = [c \in 1..nc |-> 0]
  /\ log = [c \in 1..nc |-> <<>>]

\* The state before construction: the pool is about to run `t`::work on
\* N workers, over a code cache of nu units and a class registry of nk classes.
\* The pool makes one call per worker id 0..N-1, and further calls with ids
\* it has used already as long as there are no more than maxc calls.
InitWith(t, entry, nu, nk, maxk, maxc) ==
  /\ task = t
  /\ phase = "new"
  /\ num_workers \in 1..MaxWorkers
  /\ alive \in [1..nu -> BOOLEAN]
  /\ klasses \in [1..nk -> BOOLEAN]
  /\ MaxClaimNmethods \in 1..maxk
  /\ \E nc \in num_workers..(IF maxc > num_workers THEN maxc ELSE num_workers) :
       /\ worker_id \in {f \in [1..nc -> 0..(num_workers - 1)] :
                            \A c \in 1..num_workers : f[c] = c - 1}
       /\ InitCalls(nc, entry)
  /\ first_nmethod = NULL
  /\ claimed_nmethod = NULL
  /\ clean_klass_tree_claimed = 0
  /\ cleaning_claimed = 0
  /\ klass_iterator = 1
  /\ unloaded = [u \in 1..nu |-> 0]
  /\ batches = <<>>
  /\ claim_true = [g \in Gates |-> 0]
  /\ claim_false = [g \in Gates |-> 0]
  /\ subklass_tree_calls = 0
  /\ jvmci_calls = 0
  /\ klass_returned = [k \in 1..nk |-> 0]
  /\ klass_cleaned = [k \in 1..nk |-> 0]
  /\ prologue_calls = 0
  /\ epilogue_calls = 0
  /\ unlink_calls = 0
  /\ unlink_active = 0
  /\ verify_calls = 0

\* A whole pass: ParallelCleaningTask
InitPass ==
  /\ InitWith("ParallelCleaningTask", "start", PassUnits, PassKlasses, PassBatch, 0)
  /\ count_cas = FALSE
  /\ unloading_occurred \in BOOLEAN
  /\ EnableJVMCI \in BOOLEAN
  /\ dedup_enabled \in BOOLEAN

\* A whole pass in which every worker thread keeps running
Init == InitPass /\ stalled = 0

\* A whole pass in which the thread of one call may stop for ever
InitStall == InitPass /\ stalled \in Calls

\* CodeCacheUnloadingTask driven on its own
InitCodeCache ==
  /\ InitWith("CodeCacheUnloadingTask", "cc_first", MaxUnits, 0, MaxBatch, 0)
  /\ stalled = 0
  /\ count_cas = FALSE
  /\ unloading_occurred \in BOOLEAN
  /\ EnableJVMCI = FALSE
  /\ dedup_enabled = FALSE

\* A whole pass with deduplication enabled
InitFail == Init /\ dedup_enabled

\* CodeCacheUnloadingTask driven on its own, with the outcomes of the
\* compare-and-swaps of claim_nmethods counted per call
InitRetry ==
  /\ InitWith("CodeCacheUnloadingTask", "cc_first", MaxUnits, 0, MaxBatch, 0)
  /\ stalled = 0
  /\ count_cas = TRUE
  /\ unloading_occurred = TRUE
  /\ EnableJVMCI = FALSE
  /\ dedup_enabled = FALSE

\* CodeCacheUnloadingTask driven on its own by a pool that calls work with
\* every worker id at least once
InitAtLeastOnce ==
  /\ InitWith("CodeCacheUnloadingTask", "cc_first", PassUnits, 0, PassBatch,
              MaxCalls)
  /\ stalled = 0
  /\ count_cas = FALSE
  /\ unloading_occurred = TRUE
  /\ EnableJVMCI = FALSE
  /\ dedup_enabled = FALSE

\* KlassCleaningTask driven on its own
InitKlass ==
  /\ InitWith("KlassCleaningTask", "klass_work", 0, MaxKlasses, 1, 0)
  /\ stalled = 0
  /\ count_cas = FALSE
  /\ unloading_occurred = TRUE
  /\ EnableJVMCI = FALSE
  /\ dedup_enabled = FALSE

\* ------------------------------------------------ construction
\* (mutation) the constructor does not call the begin hook
StringDedupCleaningTask_ctor_silent == prologue_calls' = prologue_calls

\* StringDedupCleaningTask::StringDedupCleaningTask
StringDedupCleaningTask_ctor ==
  prologue_calls' = IF dedup_enabled THEN prologue_calls + 1 ELSE prologue_calls

\* (mutation) the cursor starts one unit past the first alive unit
CodeCacheUnloadingTask_ctor_past ==
  /\ first_nmethod' = NextAlive(NULL)
  /\ claimed_nmethod' = NextAlive(NextAlive(NULL))

\* CodeCacheUnloadingTask::CodeCacheUnloadingTask
CodeCacheUnloadingTask_ctor ==
  /\ first_nmethod' = NextAlive(NULL)
  /\ claimed_nmethod' = NextAlive(NULL)

\* KlassCleaningTask::KlassCleaningTask
KlassCleaningTask_ctor ==
  /\ clean_klass_tree_claimed' = 0
  /\ klass_iterator' = 1

\* JVMCICleaningTask::JVMCICleaningTask
JVMCICleaningTask_ctor == cleaning_claimed' = 0

\* ParallelCleaningTask::ParallelCleaningTask (single-threaded)
Construct ==
  /\ phase = "new"
  /\ phase' = "running"
  /\ StringDedupCleaningTask_ctor
  /\ CodeCacheUnloadingTask_ctor
  /\ JVMCICleaningTask_ctor
  /\ KlassCleaningTask_ctor
  /\ UNCHANGED <<inputs, pc, locals, ccHist, gateHist, klassHist,
                 epilogue_calls, unlink_calls, unlink_active, verify_calls, log>>

\* A CodeCacheUnloadingTask constructed on its own
ConstructCodeCache ==
  /\ phase = "new"
  /\ phase' = "running"
  /\ CodeCacheUnloadingTask_ctor
  /\ UNCHANGED <<inputs, clean_klass_tree_claimed, cleaning_claimed,
                 klass_iterator, pc, locals, ccHist, gateHist, klassHist,
                 dedupHist, verify_calls, log>>

\* A KlassCleaningTask constructed on its own
ConstructKlass ==
  /\ phase = "new"
  /\ phase' = "running"
  /\ KlassCleaningTask_ctor
  /\ UNCHANGED <<inputs, first_nmethod, claimed_nmethod, cleaning_claimed,
                 pc, locals, ccHist, gateHist, klassHist, dedupHist,
                 verify_calls, log>>

Goto(c, l) == pc' = [pc EXCEPT ![c] = l]
\* Record event e of call c, once (the first time it happens).
Event(c, e) ==
  log' = [log EXCEPT ![c] =
            IF \E i \in 1..Len(@) : @[i] = e THEN @ ELSE Append(@, e)]
Running(c, l) == phase = "running" /\ pc[c] = l

\* The statement after each sub-task's work() in ParallelCleaningTask::work;
\* a sub-task driven on its own returns to the pool.
\* (mutation) klass cleaning is not gated on _unloading_occurred
AfterDedupAlways == "klass_work"

\* ParallelCleaningTask::work: `if (_unloading_occurred) _klass_cleaning_task.work()`
AfterDedup == IF unloading_occurred THEN "klass_work" ELSE "done"

\* (mutation) the dedup step is left out between code cache and klass cleaning
AfterCodeCacheNoDedup == IF task = "ParallelCleaningTask" THEN AfterDedup ELSE "done"

\* ParallelCleaningTask::work: `_string_dedup_task.work(worker_id)` follows
\* `_code_cache_task.work(worker_id)`
AfterCodeCache == IF task = "ParallelCleaningTask" THEN "dedup" ELSE "done"

\* (mutation) a plain store in place of the compare-and-swap
CasAlwaysWins(flag) == TRUE

\* Atomic::cmpxchg(1, &flag, 0) == 0: the exchange happens, and the call
\* returns true, exactly when the flag still holds 0.
CasWins(flag) == flag = 0

\* ------------------------------------------------ JVMCICleaningTask
\* (mutation) the unloading_occurred test is missing
JVMCIGuardCapabilityOnly == EnableJVMCI

\* JVMCICleaningTask::work: `unloading_occurred && EnableJVMCI`; a build
\* without INCLUDE_JVMCI behaves as one where EnableJVMCI is false.
JVMCIGuard == unloading_occurred /\ EnableJVMCI

\* JVMCICleaningTask::work guard and the unsynchronised flag read of
\* claim_cleaning_task.
JVMCI_Work(c) ==
  /\ Running(c, "start")
  /\ IF JVMCIGuard
       THEN IF cleaning_claimed # 0
              THEN /\ claim_false' = Bump(claim_false, "jvmci")
                   /\ Event(c, "jvmci_end")
                   /\ Goto(c, "cc_first")
              ELSE /\ Goto(c, "jvmci_cas")
                   /\ UNCHANGED <<claim_false, log>>
       ELSE /\ Event(c, "jvmci_end")
            /\ Goto(c, "cc_first")
            /\ UNCHANGED claim_false
  /\ UNCHANGED <<phase, inputs, shared, locals, ccHist, claim_true,
                 subklass_tree_calls, jvmci_calls, klassHist, dedupHist,
                 verify_calls>>

\* Atomic::cmpxchg(1, &_cleaning_claimed, 0) == 0
JVMCI_Cas(c) ==
  /\ Running(c, "jvmci_cas")
  /\ IF CasWins(cleaning_claimed)
       THEN /\ cleaning_claimed' = 1
            /\ claim_true' = Bump(claim_true, "jvmci")
            /\ Goto(c, "jvmci_unload")
            /\ UNCHANGED <<claim_false, log>>
       ELSE /\ claim_false' = Bump(claim_false, "jvmci")
            /\ Event(c, "jvmci_end")
            /\ Goto(c, "cc_first")
            /\ UNCHANGED <<cleaning_claimed, claim_true>>
  /\ UNCHANGED <<phase, inputs, first_nmethod, claimed_nmethod,
                 clean_klass_tree_claimed, klass_iterator, locals, ccHist,
                 subklass_tree_calls, jvmci_calls, klassHist, dedupHist,
                 verify_calls>>

\* JVMCI::do_unloading(unloading_occurred)
JVMCI_DoUnloading(c) ==
  /\ Running(c, "jvmci_unload")
  /\ jvmci_calls' = jvmci_calls + 1
  /\ Event(c, "jvmci_end")
  /\ Goto(c, "cc_first")
  /\ UNCHANGED <<phase, inputs, shared, locals, ccHist, claim_true, claim_false,
                 subklass_tree_calls, klassHist, dedupHist, verify_calls>>

\* ------------------------------------------------ CodeCacheUnloadingTask
\* nmethod::do_unloading on unit u, as seen from this task: one more call.
do_unloading(u) == unloaded' = Bump(unloaded, u)

\* (mutation) the test of the worker id is dropped
IsAnyWorker(c) == TRUE

\* work(): `worker_id == 0`
IsFirstWorker(c) == worker_id[c] = 0

\* work(): `if (worker_id == 0 && _first_nmethod != NULL)` (plain read)
CC_CheckFirst(c) ==
  /\ Running(c, "cc_first")
  /\ Event(c, "cc_begin")
  /\ IF IsFirstWorker(c) /\ first_nmethod # NULL
       THEN Goto(c, "cc_first_unload")
       ELSE Goto(c, "cc_read")
  /\ UNCHANGED <<phase, inputs, shared, locals, ccHist, gateHist, klassHist,
                 dedupHist, verify_calls>>

\* work(): `_first_nmethod->do_unloading(_unloading_occurred)`.  The field is
\* read and written without synchronisation.  If another call has written
\* NULL to it since this call's test (a data race), this call either still
\* uses the pointer it loaded for the test, which was the first alive unit,
\* or loads NULL and dereferences it, which terminates the process.
CC_UnloadFirst(c) ==
  /\ Running(c, "cc_first_unload")
  /\ \/ /\ first_nmethod # NULL
        /\ do_unloading(first_nmethod)
        /\ Goto(c, "cc_first_clear")
        /\ UNCHANGED phase
     \/ /\ first_nmethod = NULL
        /\ do_unloading(NextAlive(NULL))
        /\ Goto(c, "cc_first_clear")
        /\ UNCHANGED phase
     \/ /\ first_nmethod = NULL
        /\ phase' = "aborted"
        /\ UNCHANGED <<pc, unloaded>>
  /\ UNCHANGED <<inputs, shared, locals, batches, cas_failed,
                 cas_advanced, gateHist, klassHist, dedupHist, verify_calls,
                 log>>

\* work(): `_first_nmethod = NULL` (plain write)
CC_ClearFirst(c) ==
  /\ Running(c, "cc_first_clear")
  /\ first_nmethod' = NULL
  /\ Goto(c, "cc_read")
  /\ UNCHANGED <<phase, inputs, claimed_nmethod, clean_klass_tree_claimed,
                 cleaning_claimed, klass_iterator, locals, ccHist, gateHist,
                 klassHist, dedupHist, verify_calls, log>>

\* (mutation) claim_nmethods takes a lock: no call reads the cursor while
\* another call is between its read and its compare-and-swap
CC_ReadLocked(c) ==
  /\ Running(c, "cc_read")
  /\ \A d \in Calls : pc[d] \notin {"cc_walk", "cc_cas"}
  /\ first' = [first EXCEPT ![c] = claimed_nmethod]
  /\ last' = [last EXCEPT ![c] = claimed_nmethod]
  /\ claimed_nmethods' = [claimed_nmethods EXCEPT ![c] = <<>>]
  /\ Goto(c, "cc_walk")
  /\ UNCHANGED <<phase, inputs, shared, idx, klass, ccHist, gateHist,
                 klassHist, dedupHist, verify_calls, log>>

\* claim_nmethods: `*num_claimed_nmethods = 0; first = _claimed_nmethod;
\* last = CompiledMethodIterator(only_alive, first)`
CC_Read(c) ==
  /\ Running(c, "cc_read")
  /\ first' = [first EXCEPT ![c] = claimed_nmethod]
  /\ last' = [last EXCEPT ![c] = claimed_nmethod]
  /\ claimed_nmethods' = [claimed_nmethods EXCEPT ![c] = <<>>]
  /\ Goto(c, "cc_walk")
  /\ UNCHANGED <<phase, inputs, shared, idx, klass, ccHist, gateHist,
                 klassHist, dedupHist, verify_calls, log>>

\* claim_nmethods: the walk `if (first != NULL) { for (...) ... }`
CC_Walk(c) ==
  /\ Running(c, "cc_walk")
  /\ claimed_nmethods' = [claimed_nmethods EXCEPT ![c] = Walk(first[c])[1]]
  /\ last' = [last EXCEPT ![c] = Walk(first[c])[2]]
  /\ Goto(c, "cc_cas")
  /\ UNCHANGED <<phase, inputs, shared, first, idx, klass, ccHist, gateHist,
                 klassHist, dedupHist, verify_calls, log>>

\* (mutation) a compare-and-swap that never succeeds
CasAlwaysFails(c) == TRUE

\* (mutation) a compare-and-swap that may fail although the cursor still
\* holds the value read
CasFailsSpuriously(c) == TRUE

\* (mutation) a plain store in place of the compare-and-swap
CasNeverFails(c) == FALSE

\* Atomic::cmpxchg(last.method(), &_claimed_nmethod, first) != first
CasFails(c) == claimed_nmethod # first[c]

\* claim_nmethods: the compare-and-swap ending one round of the do-while;
\* on success the call returns and work() tests num_claimed_nmethods.
CC_Cas(c) ==
  /\ Running(c, "cc_cas")
  /\ IF CasFails(c)
       THEN /\ Goto(c, "cc_read")
            /\ cas_failed' = IF count_cas THEN Bump(cas_failed, c)
                                          ELSE cas_failed
            /\ UNCHANGED <<claimed_nmethod, batches, cas_advanced, idx, log>>
       ELSE /\ claimed_nmethod' = last[c]
            /\ batches' = Append(batches, <<first[c], claimed_nmethods[c]>>)
            /\ cas_advanced' = IF count_cas /\ last[c] # claimed_nmethod
                                  THEN Bump(cas_advanced, c)
                                  ELSE cas_advanced
            /\ UNCHANGED cas_failed
            /\ idx' = [idx EXCEPT ![c] = 0]
            /\ IF Len(claimed_nmethods[c]) = 0
                 THEN Event(c, "cc_end") /\ Goto(c, AfterCodeCache)
                 ELSE UNCHANGED log /\ Goto(c, "cc_unload")
  \* `first` and `last` are dead once the compare-and-swap has been done
  /\ first' = [first EXCEPT ![c] = NULL]
  /\ last' = [last EXCEPT ![c] = NULL]
  /\ UNCHANGED <<phase, inputs, first_nmethod, clean_klass_tree_claimed,
                 cleaning_claimed, klass_iterator,
                 claimed_nmethods, klass, unloaded, gateHist, klassHist,
                 dedupHist, verify_calls>>

\* work(): `claimed_nmethods[i]->do_unloading(_unloading_occurred)`, i++
CC_Unload(c) ==
  /\ Running(c, "cc_unload")
  /\ do_unloading(claimed_nmethods[c][idx[c] + 1])
  /\ IF idx[c] + 1 < Len(claimed_nmethods[c])
       THEN /\ idx' = [idx EXCEPT ![c] = @ + 1]
            /\ Goto(c, "cc_unload")
            /\ UNCHANGED claimed_nmethods
       \* loop done: the batch is dead until the next claim overwrites it
       ELSE /\ idx' = [idx EXCEPT ![c] = 0]
            /\ claimed_nmethods' = [claimed_nmethods EXCEPT ![c] = <<>>]
            /\ Goto(c, "cc_read")
  /\ UNCHANGED <<phase, inputs, shared, first, last, klass,
                 batches, cas_failed, cas_advanced, gateHist, klassHist,
                 dedupHist, verify_calls, log>>

CodeCacheStep(c) ==
  \/ CC_CheckFirst(c) \/ CC_UnloadFirst(c) \/ CC_ClearFirst(c)
  \/ CC_Read(c) \/ CC_Walk(c) \/ CC_Cas(c) \/ CC_Unload(c)

\* ------------------------------------------------ StringDedupCleaningTask
\* StringDedupCleaningTask::work: the is_enabled() test and the call of
\* StringDedup::parallel_unlink(&_dedup_closure, worker_id).
Dedup_Work(c) ==
  /\ Running(c, "dedup")
  /\ IF dedup_enabled
       THEN /\ unlink_calls' = unlink_calls + 1
            /\ unlink_active' = unlink_active + 1
            /\ Event(c, "unlink_call")
            /\ Goto(c, "dedup_unlink")
       ELSE /\ Goto(c, AfterDedup)
            /\ UNCHANGED <<unlink_calls, unlink_active, log>>
  /\ UNCHANGED <<phase, inputs, shared, locals, ccHist, gateHist, klassHist,
                 prologue_calls, epilogue_calls, verify_calls>>

\* (mutation) each work call invokes the end hook itself when its unlink
\* call has returned
Dedup_ReturnWithEpilogue(c) ==
  /\ Running(c, "dedup_unlink")
  /\ unlink_active' = unlink_active - 1
  /\ epilogue_calls' = epilogue_calls + 1
  /\ Event(c, "unlink_ret")
  /\ Goto(c, AfterDedup)
  /\ UNCHANGED <<phase, inputs, shared, locals, ccHist, gateHist, klassHist,
                 prologue_calls, unlink_calls, verify_calls>>

\* StringDedup::parallel_unlink returns to StringDedupCleaningTask::work.
Dedup_Return(c) ==
  /\ Running(c, "dedup_unlink")
  /\ unlink_active' = unlink_active - 1
  /\ Event(c, "unlink_ret")
  /\ Goto(c, AfterDedup)
  /\ UNCHANGED <<phase, inputs, shared, locals, ccHist, gateHist, klassHist,
                 prologue_calls, epilogue_calls, unlink_calls, verify_calls>>

DedupStep(c) == Dedup_Work(c) \/ Dedup_Return(c)

\* StringDedup::parallel_unlink fails.  The call has no error result and
\* work has no handler: a failure inside it is a fatal error, which
\* terminates the process where it stands; no destructor runs.
Dedup_Fatal(c) ==
  /\ Running(c, "dedup_unlink")
  /\ phase' = "aborted"
  /\ UNCHANGED <<inputs, shared, pc, locals, ccHist, gateHist, klassHist,
                 dedupHist, verify_calls, log>>

\* ------------------------------------------------ KlassCleaningTask
\* KlassCleaningTask::work up to the unsynchronised flag read of
\* claim_clean_klass_tree_task.
Klass_Work(c) ==
  /\ Running(c, "klass_work")
  /\ Event(c, "klass_begin")
  /\ IF clean_klass_tree_claimed # 0
       THEN /\ claim_false' = Bump(claim_false, "klass_tree")
            /\ Goto(c, "klass_next")
       ELSE /\ Goto(c, "klass_cas")
            /\ UNCHANGED claim_false
  /\ UNCHANGED <<phase, inputs, shared, locals, ccHist, claim_true,
                 subklass_tree_calls, jvmci_calls, klassHist, dedupHist,
                 verify_calls>>

\* Atomic::cmpxchg(1, &_clean_klass_tree_claimed, 0) == 0
Klass_Cas(c) ==
  /\ Running(c, "klass_cas")
  /\ IF CasWins(clean_klass_tree_claimed)
       THEN /\ clean_klass_tree_claimed' = 1
            /\ claim_true' = Bump(claim_true, "klass_tree")
            /\ Goto(c, "klass_tree")
            /\ UNCHANGED claim_false
       ELSE /\ claim_false' = Bump(claim_false, "klass_tree")
            /\ Goto(c, "klass_next")
            /\ UNCHANGED <<clean_klass_tree_claimed, claim_true>>
  /\ UNCHANGED <<phase, inputs, first_nmethod, claimed_nmethod,
                 cleaning_claimed, klass_iterator, locals, ccHist,
                 subklass_tree_calls, jvmci_calls, klassHist, dedupHist,
                 verify_calls, log>>

\* Klass::clean_subklass_tree()
Klass_CleanTree(c) ==
  /\ Running(c, "klass_tree")
  /\ subklass_tree_calls' = subklass_tree_calls + 1
  /\ Goto(c, "klass_next")
  /\ UNCHANGED <<phase, inputs, shared, locals, ccHist, claim_true,
                 claim_false, jvmci_calls, klassHist, dedupHist, verify_calls,
                 log>>

\* ClassLoaderDataGraphKlassIteratorAtomic::next_klass(): hands out the next
\* class of the registry to this caller alone, NULL once exhausted.
next_klass == IF klass_iterator <= Len(klasses) THEN klass_iterator ELSE NULL

\* (mutation) the is_instance_klass test is missing
SkipNoKlass(k) == FALSE

\* `klass != NULL && !klass->is_instance_klass()`: pull again
SkipKlass(k) == k # NULL /\ ~klasses[k]

\* claim_next_klass: one round of its do-while (one next_klass pull and the
\* loop test); on leaving the loop, the `!= NULL` test of work()'s while.
Klass_Next(c) ==
  /\ Running(c, "klass_next")
  /\ klass_iterator' = IF next_klass # NULL THEN klass_iterator + 1
                                            ELSE klass_iterator
  /\ klass' = [klass EXCEPT ![c] = next_klass]
  /\ IF SkipKlass(next_klass)
       THEN /\ Goto(c, "klass_next")
            /\ UNCHANGED klass_returned
       ELSE IF next_klass # NULL
         THEN /\ klass_returned' = Bump(klass_returned, next_klass)
              /\ Goto(c, "klass_clean")
         ELSE /\ Goto(c, "done")
              /\ UNCHANGED klass_returned
  /\ UNCHANGED <<phase, inputs, first_nmethod, claimed_nmethod,
                 clean_klass_tree_claimed, cleaning_claimed, first, last,
                 claimed_nmethods, idx, ccHist, gateHist, klass_cleaned,
                 dedupHist, verify_calls, log>>

\* clean_klass(klass)
Klass_Clean(c) ==
  /\ Running(c, "klass_clean")
  /\ klass_cleaned' = Bump(klass_cleaned, klass[c])
  /\ klass' = [klass EXCEPT ![c] = NULL]
  /\ Goto(c, "klass_next")
  /\ UNCHANGED <<phase, inputs, shared, first, last, claimed_nmethods, idx,
                 ccHist, gateHist, klass_returned, dedupHist, verify_calls,
                 log>>

KlassStep(c) ==
  \/ Klass_Work(c) \/ Klass_Cas(c) \/ Klass_CleanTree(c)
  \/ Klass_Next(c) \/ Klass_Clean(c)

JVMCIStep(c) == JVMCI_Work(c) \/ JVMCI_Cas(c) \/ JVMCI_DoUnloading(c)

\* ------------------------------------------------ destruction
\* (mutation) the task object is destroyed without waiting for the workers
JoinSkipped == TRUE

AllReturned == \A c \in Calls : pc[c] = "done"

\* ~ParallelCleaningTask after the pool's join: the members are destroyed,
\* ~CodeCacheUnloadingTask runs the verification pair and
\* ~StringDedupCleaningTask the end hook.
\* ~CodeCacheUnloadingTask: CodeCache::verify_clean_inline_caches() and
\* CodeCache::verify_icholder_relocations()
CodeCacheUnloadingTask_dtor == verify_calls' = verify_calls + 1

\* (mutation) the destructor calls the end hook without the is_enabled test
StringDedupCleaningTask_dtor_unchecked == epilogue_calls' = epilogue_calls + 1

\* ~StringDedupCleaningTask
StringDedupCleaningTask_dtor ==
  epilogue_calls' = IF dedup_enabled THEN epilogue_calls + 1
                                     ELSE epilogue_calls

Destroy ==
  /\ phase = "running"
  /\ AllReturned
  /\ phase' = "destroyed"
  /\ CodeCacheUnloadingTask_dtor
  /\ StringDedupCleaningTask_dtor
  /\ UNCHANGED <<inputs, shared, pc, locals, ccHist, gateHist, klassHist,
                 prologue_calls, unlink_calls, unlink_active, log>>

\* A CodeCacheUnloadingTask destroyed on its own, after the join
DestroyCodeCache ==
  /\ phase = "running"
  /\ AllReturned
  /\ phase' = "destroyed"
  /\ CodeCacheUnloadingTask_dtor
  /\ UNCHANGED <<inputs, shared, pc, locals, ccHist, gateHist, klassHist,
                 dedupHist, log>>

Next ==
  \/ Construct
  \/ \E c \in Calls : JVMCIStep(c)
  \/ \E c \in Calls : CodeCacheStep(c)
  \/ \E c \in Calls : DedupStep(c)
  \/ \E c \in Calls : KlassStep(c)
  \/ Destroy

Spec == Init /\ [][Next]_vars

\* One step of work call c
WorkerStep(c) ==
  JVMCIStep(c) \/ CodeCacheStep(c) \/ DedupStep(c) \/ KlassStep(c)

\* A whole pass on worker threads that the scheduler keeps running: the
\* constructing thread and every worker thread take their next step
\* eventually.  No step of a work call waits for anything, so weak fairness
\* is all that is needed.
SpecFair ==
  /\ Init
  /\ [][Next]_vars
  /\ WF_vars(Construct)
  /\ \A c \in 1..MaxWorkers : WF_vars(c \in Calls /\ WorkerStep(c))

\* A whole pass in which the thread of call `stalled` may stop for ever at
\* any point, while the other threads are kept running.
SpecStall ==
  /\ InitStall
  /\ [][Next]_vars
  /\ WF_vars(Construct)
  /\ \A c \in 1..MaxWorkers :
        WF_vars(c \in Calls /\ c # stalled /\ WorkerStep(c))

\* A whole pass in which a parallel_unlink call may fail
NextFail ==
  \/ Next
  \/ \E c \in Calls : Dedup_Fatal(c)

SpecFail == InitFail /\ [][NextFail]_vars

NextCodeCache ==
  \/ ConstructCodeCache
  \/ \E c \in Calls : CodeCacheStep(c)
  \/ DestroyCodeCache

SpecCodeCache == InitCodeCache /\ [][NextCodeCache]_vars

SpecRetry == InitRetry /\ [][NextCodeCache]_vars

SpecAtLeastOnce == InitAtLeastOnce /\ [][NextCodeCache]_vars

NextKlass ==
  \/ ConstructKlass
  \/ \E c \in Calls : KlassStep(c)

SpecKlass == InitKlass /\ [][NextKlass]_vars

\* ====================================================== properties
AliveUnits == {u \in Units : alive[u]}

\* Labels of a call that has not yet returned from CodeCacheUnloadingTask::work
CodeCachePending ==
  {"start", "jvmci_cas", "jvmci_unload", "cc_first", "cc_first_unload",
   "cc_first_clear", "cc_read", "cc_walk", "cc_cas", "cc_unload"}
ReturnedFromCodeCache(c) == pc[c] \notin CodeCachePending
AllReturnedFromCodeCache == \A c \in Calls : ReturnedFromCodeCache(c)

\* The units of the i-th batch returned by claim_nmethods, and of all of them
BatchUnits(i) == {batches[i][2][j] : j \in 1..Len(batches[i][2])}
ReturnedUnits == UNION {BatchUnits(i) : i \in 1..Len(batches)}
NonEmptyBatches == {i \in 1..Len(batches) : batches[i][2] # <<>>}

\* C1 -- Exactly-once unload: once every worker has returned from
\* CodeCacheUnloadingTask::work, do_unloading has been called exactly once on
\* every alive unit (the first one included) and never on a dead one.
C1_ExactlyOnceUnload ==
  AllReturnedFromCodeCache =>
    \A u \in Units : unloaded[u] = IF alive[u] THEN 1 ELSE 0

\* Two workers have raced over at least three alive units, handed out in at
\* least two batches, and both have returned.
C1_Witness ==
  /\ AllReturnedFromCodeCache
  /\ num_workers = 2
  /\ Cardinality(AliveUnits) >= 3
  /\ Cardinality(NonEmptyBatches) >= 2

\* C2 -- Batch disjointness: no unit is returned by two completed
\* claim_nmethods calls of a pass, nor twice by one; a batch walked before a
\* failed compare-and-swap is not recorded as returned.
C2_BatchesDisjoint ==
  /\ \A i, j \in 1..Len(batches) :
        i < j => BatchUnits(i) \cap BatchUnits(j) = {}
  /\ \A i \in 1..Len(batches) :
        Cardinality(BatchUnits(i)) = Len(batches[i][2])

\* A call has just lost its compare-and-swap with a non-empty walked batch
\* (still in its local array), while another call's batch was returned.
C2_Witness ==
  \E c \in Calls :
    /\ pc[c] = "cc_read"
    /\ claimed_nmethods[c] # <<>>
    /\ NonEmptyBatches # {}

\* C3 (as stated) -- Batch coverage: once every worker's claim loop has
\* ended, the union of the returned batches is the full alive-unit set.
C3_CoverageOfAllAlive ==
  AllReturnedFromCodeCache => ReturnedUnits = AliveUnits

\* C3 (amended) -- once every worker's claim loop has ended, the union of
\* the returned batches is the alive-unit set without the first alive unit,
\* which claim_nmethods never returns.
C3_CoverageButFirst ==
  AllReturnedFromCodeCache => ReturnedUnits = AliveUnits \ {NextAlive(NULL)}

\* All claim loops have ended after handing out at least two units in more
\* than one batch.
C3_Witness ==
  /\ AllReturnedFromCodeCache
  /\ num_workers = 2
  /\ Cardinality(ReturnedUnits) >= 2
  /\ Cardinality(NonEmptyBatches) >= 2
  /\ MaxClaimNmethods = 1

\* ------------------------------------------------ single-claim gates
GateFlag(g) == IF g = "klass_tree" THEN clean_klass_tree_claimed
                                   ELSE cleaning_claimed

\* C4 -- Single-claim exclusivity: of the calls of a gate's claim operation
\* in one pass at most one returns true; a call returns false only after
\* another has returned true; once all N callers have called it, exactly one
\* has returned true and N-1 false; the flag is set exactly from the winning
\* call on and is never reset.
C4_SingleClaimExclusive ==
  \A g \in Gates :
    /\ claim_true[g] <= 1
    /\ claim_false[g] >= 1 => claim_true[g] = 1
    /\ claim_true[g] + claim_false[g] = num_workers =>
          claim_true[g] = 1 /\ claim_false[g] = num_workers - 1
    /\ phase # "new" => (GateFlag(g) = 1 <=> claim_true[g] = 1)
    /\ GateFlag(g) \in {0, 1}

\* Both gates have been raced for: the JVMCI gate was won by one call and
\* lost by the other, and a call that read the klass-tree flag as unclaimed
\* is about to lose its compare-and-swap to the winner.
C4_Witness ==
  /\ claim_true["jvmci"] = 1
  /\ claim_false["jvmci"] = 1
  /\ claim_true["klass_tree"] = 1
  /\ \E c \in Calls : pc[c] = "klass_cas"

\* ------------------------------------------------ klass cleaning
\* C5 -- Class-visit filtering: a non-instance class is never returned by
\* claim_next_klass nor passed to clean_klass; no class is cleaned twice; and
\* once all workers have returned from KlassCleaningTask::work every instance
\* class has been returned and cleaned exactly once.
C5_ClassVisitFiltering ==
  /\ \A k \in Klasses : klass_cleaned[k] <= klass_returned[k]
  /\ \A k \in Klasses : klass_returned[k] <= 1
  /\ \A k \in Klasses : ~klasses[k] => klass_returned[k] = 0
  /\ AllReturned =>
       \A k \in Klasses : klasses[k] => klass_cleaned[k] = 1

\* Two workers have cleaned a registry that mixes at least two instance
\* classes with a non-instance class, and both have returned.
C5_Witness ==
  /\ AllReturned
  /\ num_workers = 2
  /\ Cardinality({k \in Klasses : klasses[k]}) >= 2
  /\ \E k \in Klasses : ~klasses[k]
  /\ \A k \in Klasses : klasses[k] => klass_cleaned[k] = 1

KlassLabels == {"klass_work", "klass_cas", "klass_tree", "klass_next",
                "klass_clean"}

\* C6 -- Conditional klass cleaning: with unloading_occurred false no call
\* ever enters KlassCleaningTask::work, so the subclass-tree claim is never
\* attempted, clean_subklass_tree and clean_klass are never called and the
\* class iterator is never advanced; with unloading_occurred true, once all
\* workers have returned the subclass-tree rebuild has run exactly once and
\* the class iterator is exhausted.
C6_ConditionalKlassCleaning ==
  /\ ~unloading_occurred =>
       /\ \A c \in Calls : pc[c] \notin KlassLabels
       /\ claim_true["klass_tree"] = 0 /\ claim_false["klass_tree"] = 0
       /\ clean_klass_tree_claimed = 0
       /\ subklass_tree_calls = 0
       /\ klass_iterator = 1
       /\ \A k \in Klasses : klass_returned[k] = 0 /\ klass_cleaned[k] = 0
  /\ (unloading_occurred /\ AllReturned) =>
       /\ subklass_tree_calls = 1
       /\ klass_iterator = Len(klasses) + 1
       /\ \A k \in Klasses : klasses[k] => klass_cleaned[k] = 1

\* A pass of two workers without unloading has completed and was destroyed.
C6_Witness ==
  /\ phase = "destroyed"
  /\ ~unloading_occurred
  /\ num_workers = 2
  /\ Klasses # {}

\* ------------------------------------------------ string deduplication
\* C7 -- Dedup bracket ordering: with deduplication enabled, gc_prologue has
\* been called exactly once from construction on, hence before any
\* parallel_unlink call; gc_epilogue is called at most once, and when it has
\* been called every worker's parallel_unlink call has been made and has
\* returned; a destroyed task has had exactly one of each hook.
C7_DedupBracket ==
  dedup_enabled =>
    /\ phase = "new" => prologue_calls = 0 /\ unlink_calls = 0
    /\ phase # "new" => prologue_calls = 1
    /\ epilogue_calls <= 1
    /\ epilogue_calls = 1 =>
         /\ unlink_active = 0
         /\ unlink_calls = num_workers
         /\ AllReturned
    /\ phase = "destroyed" <=> epilogue_calls = 1

\* A pass with deduplication enabled in which two workers unlinked has ended.
C7_Witness ==
  /\ dedup_enabled
  /\ phase = "destroyed"
  /\ unlink_calls = 2
  /\ epilogue_calls = 1

\* C8 -- Dedup disabled: with deduplication not enabled none of gc_prologue,
\* gc_epilogue and parallel_unlink is ever called, in construction, in any
\* work call or in destruction.
C8_DedupDisabled ==
  ~dedup_enabled =>
    /\ prologue_calls = 0
    /\ epilogue_calls = 0
    /\ unlink_calls = 0
    /\ unlink_active = 0
    /\ \A c \in Calls : pc[c] # "dedup_unlink"

\* A pass of two workers with deduplication disabled has been destroyed.
C8_Witness ==
  /\ ~dedup_enabled
  /\ phase = "destroyed"
  /\ num_workers = 2
  /\ \A c \in Calls : pc[c] = "done"

\* ------------------------------------------------ orchestration
Pos(c, e) == IF \E i \in 1..Len(log[c]) : log[c][i] = e
               THEN CHOOSE i \in 1..Len(log[c]) : log[c][i] = e
               ELSE 0
Happened(c, e) == Pos(c, e) > 0
\* event b of call c, if it has happened, was preceded by its event a
Precedes(c, a, b) == Happened(c, b) => Happened(c, a) /\ Pos(c, a) < Pos(c, b)

\* C9 -- Per-worker phase order: in each work call the JVMCI attempt ends
\* before the code cache work begins, the claim loop ends before the dedup
\* unlink call, and (when deduplication is enabled) the unlink call has
\* returned before klass cleaning begins; the positions of a call agree with
\* what it has logged.
C9_PerWorkerPhaseOrder ==
  \A c \in Calls :
    /\ Precedes(c, "jvmci_end", "cc_begin")
    /\ Precedes(c, "cc_begin", "cc_end")
    /\ Precedes(c, "cc_end", "unlink_call")
    /\ Precedes(c, "unlink_call", "unlink_ret")
    /\ Precedes(c, "cc_end", "klass_begin")
    /\ dedup_enabled => Precedes(c, "unlink_ret", "klass_begin")
    /\ pc[c] \in {"cc_first_unload", "cc_first_clear", "cc_read", "cc_walk",
                   "cc_cas", "cc_unload"} =>
         Happened(c, "jvmci_end") /\ ~Happened(c, "cc_end")
    /\ pc[c] = "dedup_unlink" => Happened(c, "cc_end")
    /\ pc[c] \in KlassLabels \ {"klass_work"} => Happened(c, "klass_begin")
    /\ (pc[c] = "done" /\ dedup_enabled) => Happened(c, "unlink_ret")

\* No order between workers: one call is in klass cleaning while another is
\* still unloading a claimed batch.
C9_Witness ==
  \E a, b \in Calls :
    /\ pc[a] \in {"klass_next", "klass_clean"}
    /\ pc[b] = "cc_unload"
    /\ dedup_enabled

\* C10 -- JVMCI cleanup count: JVMCI::do_unloading is called at most once;
\* once all workers have returned it has been called exactly once if
\* unloading_occurred and EnableJVMCI both hold, and otherwise it is never
\* called, the claim is never attempted and the flag stays unclaimed.
C10_JVMCICleanupCount ==
  /\ jvmci_calls <= 1
  /\ AllReturned =>
       jvmci_calls = IF unloading_occurred /\ EnableJVMCI THEN 1 ELSE 0
  /\ ~(unloading_occurred /\ EnableJVMCI) =>
       /\ jvmci_calls = 0
       /\ cleaning_claimed = 0
       /\ claim_true["jvmci"] = 0 /\ claim_false["jvmci"] = 0
       /\ \A c \in Calls : pc[c] \notin {"jvmci_cas", "jvmci_unload"}

\* Two workers raced for the JVMCI gate with the capability enabled after
\* unloading; one cleaned up, and both have returned.
C10_Witness ==
  /\ AllReturned
  /\ num_workers = 2
  /\ unloading_occurred /\ EnableJVMCI
  /\ jvmci_calls = 1
  /\ claim_false["jvmci"] = 1
\* ------------------------------------------------ shape of the batches
\* The first alive unit of the registry, which the constructor puts in
\* _first_nmethod (NULL for a registry without alive units).
Sentinel == NextAlive(NULL)

\* The run of at most n consecutive alive units that follow unit u
RECURSIVE AliveRun(_, _)
AliveRun(u, n) ==
  IF n = 0 \/ NextAlive(u) = NULL THEN <<>>
  ELSE <<NextAlive(u)>> \o AliveRun(NextAlive(u), n - 1)

\* Units returned so far, counted with multiplicity
RECURSIVE ReturnedCount(_)
ReturnedCount(i) == IF i = 0 THEN 0 ELSE Len(batches[i][2]) + ReturnedCount(i - 1)

\* do_unloading calls so far
RECURSIVE UnloadCalls(_)
UnloadCalls(u) == IF u = 0 THEN 0 ELSE unloaded[u] + UnloadCalls(u - 1)

\* C13 -- Batch shape: every batch returned by claim_nmethods holds at most
\* MaxClaimNmethods units and is exactly the run of consecutive alive units
\* that follow the cursor value its compare-and-swap replaced (nothing
\* follows a NULL cursor); the first alive unit is in no batch, walked or
\* returned, and only a call with worker id 0 is ever about to unload it;
\* once all claim loops have ended the batches hold every other alive unit
\* once and the number of do_unloading calls is the number of alive units.
C13_BatchShape ==
  /\ \A i \in 1..Len(batches) :
        LET f == batches[i][1]
            b == batches[i][2]
        IN /\ Len(b) <= MaxClaimNmethods
           /\ b = IF f = NULL THEN <<>> ELSE AliveRun(f, MaxClaimNmethods)
           /\ Sentinel # NULL => Sentinel \notin BatchUnits(i)
  /\ \A c \in Calls :
        /\ pc[c] \in {"cc_first_unload", "cc_first_clear"} => worker_id[c] = 0
        /\ \A j \in 1..Len(claimed_nmethods[c]) :
              claimed_nmethods[c][j] # Sentinel
  /\ AllReturnedFromCodeCache =>
        /\ ReturnedCount(Len(batches)) =
              Cardinality(AliveUnits \ {Sentinel})
        /\ UnloadCalls(Len(alive)) = Cardinality(AliveUnits)

\* Two workers are done with a registry of four alive units: the first was
\* unloaded apart, the other three were returned in a full batch of two and
\* a batch of one.
C13_Witness ==
  /\ AllReturnedFromCodeCache
  /\ num_workers = 2
  /\ MaxClaimNmethods = 2
  /\ Cardinality(AliveUnits) = 4
  /\ \E i, j \in 1..Len(batches) :
        Len(batches[i][2]) = 2 /\ Len(batches[j][2]) = 1
  /\ unloaded[Sentinel] = 1

\* ------------------------------------------------ the claim cursor
\* This step is the compare-and-swap of some call's claim_nmethods, and it
\* succeeds: the cursor held the value the call had read and now holds the
\* call's last.method().
\* The last unit reached by the walk that this step's compare-and-swap
\* publishes: the last unit of the batch, or the cursor itself if the batch
\* is empty.
WalkedEnd ==
  LET c == CHOOSE c \in Calls : pc[c] = "cc_cas" /\ pc'[c] # "cc_cas"
  IN IF claimed_nmethods[c] = <<>> THEN first[c]
     ELSE claimed_nmethods[c][Len(claimed_nmethods[c])]

CursorSetByCas ==
  \E c \in Calls :
    /\ pc[c] = "cc_cas"
    /\ pc'[c] # "cc_cas"
    /\ claimed_nmethod = first[c]
    /\ claimed_nmethod' = last[c]

\* Every claim so far that could be handed out has been: the returned
\* batches hold all alive units but the first.
Exhausted == ReturnedUnits = AliveUnits \ {Sentinel}

ReturnedBefore(i) == UNION {BatchUnits(j) : j \in 1..(i - 1)}

PrefixUpTo(u) == {v \in AliveUnits : v > Sentinel /\ v <= u}

C20_VerifyAfterAllReturned ==
  /\ [](/\ verify_calls <= 1
        /\ verify_calls = 1 <=> phase = "destroyed"
        /\ verify_calls = 1 =>
              /\ \A c \in Calls : pc[c] = "done"
              /\ \A u \in Units : unloaded[u] = IF alive[u] THEN 1 ELSE 0)
  /\ [][verify_calls' # verify_calls =>
          /\ verify_calls' = verify_calls + 1
          /\ \A c \in Calls : pc[c] = "done" /\ pc'[c] = "done"
          /\ \A u \in Units : unloaded[u] = IF alive[u] THEN 1 ELSE 0
          /\ unloaded' = unloaded]_vars

\* The verification has run after two workers unloaded three or more alive
\* units between them.
C20_Witness ==
  /\ verify_calls = 1
  /\ num_workers = 2
  /\ Cardinality(AliveUnits) >= 3
  /\ Cardinality(NonEmptyBatches) >= 2

\* ------------------------------------------------ bounded retry
\* Changes of the cursor made so far by the compare-and-swaps of calls d <= n
\* other than c
RECURSIVE AdvancesByOthers(_, _)
AdvancesByOthers(c, n) ==
  IF n = 0 THEN 0
  ELSE (IF n = c THEN 0 ELSE cas_advanced[n]) + AdvancesByOthers(c, n - 1)

\* Call c is between its read of the cursor and its compare-and-swap, and
\* the cursor no longer holds the value it read: its compare-and-swap is
\* going to fail.
AboutToFail(c) ==
  pc[c] \in {"cc_walk", "cc_cas"} /\ claimed_nmethod # first[c]

\* C16 -- Bounded retry in the claim loop: every failed compare-and-swap of
\* a call, the one it is about to suffer included, is matched by a change
\* of the cursor made by another call's compare-and-swap, so the failed
\* attempts of a call number at most the cursor changes made by the other
\* calls, which number at most the alive units.
C16_BoundedRetry ==
  \A c \in Calls :
    /\ cas_failed[c] + (IF AboutToFail(c) THEN 1 ELSE 0)
          <= AdvancesByOthers(c, Cardinality(Calls))
    /\ AdvancesByOthers(c, Cardinality(Calls)) <= Cardinality(AliveUnits)

\* One call has lost its compare-and-swap twice to the other one.
C16_Witness ==
  \E c \in Calls :
    /\ cas_failed[c] = 2
    /\ AdvancesByOthers(c, Cardinality(Calls)) >= 2

\* ------------------------------------------------ repeated worker ids
\* do_unloading has been called at most once on every alive unit and never
\* on a dead one, and exactly once on every alive unit once all calls have
\* returned from CodeCacheUnloadingTask::work; no call has dereferenced NULL.
UnloadedOnce ==
  /\ \A u \in Units : unloaded[u] <= IF alive[u] THEN 1 ELSE 0
  /\ AllReturnedFromCodeCache =>
        \A u \in Units : unloaded[u] = IF alive[u] THEN 1 ELSE 0
  /\ phase # "aborted"

\* The calls made with worker id i
CallsOf(i) == {c \in Calls : worker_id[c] = i}

\* C18 (as stated) -- Single invocation per worker id: when the pool calls
\* work with every worker id at least once, so that an id, possibly 0, may
\* be used by more than one call of a pass, every alive unit, the first one
\* included, is still unloaded exactly once.
C18_ExactlyOnceWithRepeats == UnloadedOnce

\* C18 (amended) -- when the pool calls work with every worker id at least
\* once and with id 0 exactly once, every alive unit, the first one
\* included, is unloaded exactly once.
C18_ExactlyOnceWithRepeatsButZero ==
  Cardinality(CallsOf(0)) = 1 => UnloadedOnce

\* Three calls, two of them with worker id 1, have returned after unloading
\* two alive units or more.
C18_Witness ==
  /\ Cardinality(CallsOf(0)) = 1
  /\ Cardinality(CallsOf(1)) = 2
  /\ AllReturnedFromCodeCache
  /\ Cardinality(AliveUnits) >= 2
  /\ unloaded[Sentinel] = 1

C11_NoWorkerBlocksAnother ==
  <>[](\A c \in Calls : c # stalled => pc[c] = "done")

\* The stalled call has walked a batch and stands before its
\* compare-and-swap; the other call has returned.
C11_Witness ==
  /\ num_workers = 2
  /\ pc[stalled] = "cc_cas"
  /\ claimed_nmethods[stalled] # <<>>
  /\ \A c \in Calls : c # stalled => pc[c] = "done"

\* C12 -- Termination: when every worker thread is scheduled fairly, every
\* call eventually returns from ParallelCleaningTask::work and stays
\* returned; no call remains in the do-while of claim_nmethods or in the
\* claim loop of CodeCacheUnloadingTask::work.
C12_Termination ==
  <>[](\A c \in Calls : pc[c] = "done" /\ claimed_nmethods[c] = <<>>)

\* Two workers have returned after one of them lost a compare-and-swap and
\* went round the do-while again: batches were returned while each worker
\* also ended its claim loop with an empty one.
C12_Witness ==
  /\ num_workers = 2
  /\ \A c \in Calls : pc[c] = "done"
  /\ NonEmptyBatches # {}
  /\ Len(batches) >= 3
  /\ unloading_occurred

====
